---- MODULE Spec2Model ----
(***************************************************************************)
(* Model of hedm.midas.io: LatticeParameters_, Grain_ and Grains.parse.    *)
(*                                                                         *)
(* Text is a sequence of one-character strings.  Python values are tagged  *)
(* records: None, int, float and str.  A float is held in fixed point, in  *)
(* units of 10^-6 (the precision of the numerals MIDAS writes), which is   *)
(* exact for every numeral of at most six decimals below 2147 in size.     *)
(***************************************************************************)
EXTENDS Integers, Sequences, FiniteSets, TLC

VARIABLES
    lp,        \* a LatticeParameters_ instance: the attributes a_ .. gamma_
    lpLog,     \* the assignments made to lp since it was constructed
    lhs,       \* a Grain_ instance
    rhs,       \* a second Grain_ instance, compared against lhs
    gexc,      \* what the last from_Series call raised ("none" if it returned)
    gpre,      \* the Grain_ the last from_Series call was made on, before it
    grow,      \* the row handed to the last from_Series call
    self,      \* a Grains instance
    exc,       \* what the last parse call on self raised ("none" if it returned)
    pre,       \* self before the last parse call
    file       \* the file handed to the last parse call (NoCall before any)

vars == <<lp, lpLog, lhs, rhs, gexc, gpre, grow, self, exc, pre, file>>

(***************************************************************************)
(* Python values                                                           *)
(***************************************************************************)
None == [t |-> "none", v |-> 0]
PyInt(n) == [t |-> "int", v |-> n]
PyFloat(u) == [t |-> "float", v |-> u]
PyStr(s) == [t |-> "str", v |-> s]

IsNumber(x) == x.t \in {"int", "float"}

\* Units per 1.0 of the fixed-point floats.
Unit == 1000000

\* The numeric value of a number, in fixed-point units (an int n is n.0).
Units(x) == IF x.t = "int" THEN x.v * Unit ELSE x.v

\* Python's == on two values of the model (1 == 1.0 holds; a str never
\* equals a number; None equals only None).
PyEq(x, y) ==
    IF IsNumber(x) /\ IsNumber(y) THEN Units(x) = Units(y)
    ELSE x.t = y.t /\ x.v = y.v

Returned(x) == [ok |-> TRUE, v |-> x, exc |-> "none"]
Raised(e) == [ok |-> FALSE, v |-> None, exc |-> e]

Abs(n) == IF n < 0 THEN -n ELSE n

(***************************************************************************)
(* Python str operations                                                   *)
(***************************************************************************)
Whitespace == {" ", "\t", "\n"}
Digits == {"0", "1", "2", "3", "4", "5", "6", "7", "8", "9"}

DigitValue(c) ==
    CASE c = "0" -> 0 [] c = "1" -> 1 [] c = "2" -> 2 [] c = "3" -> 3
      [] c = "4" -> 4 [] c = "5" -> 5 [] c = "6" -> 6 [] c = "7" -> 7
      [] c = "8" -> 8 [] c = "9" -> 9

\* The k-th smallest member of a set of integers.
Nth(S, k) == CHOOSE p \in S : Cardinality({q \in S : q < p}) = k - 1

Min(S) == CHOOSE p \in S : \A q \in S : p <= q
Max(S) == CHOOSE p \in S : \A q \in S : q <= p

\* s.replace(c, '', 1): only the first occurrence removed.
ReplaceFirst(s, c) ==
    LET at == {i \in 1..Len(s) : s[i] = c}
    IN  IF at = {} THEN s
        ELSE SubSeq(s, 1, Min(at) - 1) \o SubSeq(s, Min(at) + 1, Len(s))

\* s.replace(c, ''): every occurrence of the character removed.
Replace(s, c) == SelectSeq(s, LAMBDA ch : ch # c)

\* s.strip(): leading and trailing whitespace removed.
Strip(s) ==
    LET keep == {i \in 1..Len(s) : s[i] \notin Whitespace}
    IN  IF keep = {} THEN <<>> ELSE SubSeq(s, Min(keep), Max(keep))

\* s.split(sep) for a one-character sep: the pieces between consecutive
\* separators, empty pieces included; n separators give n + 1 pieces.
SplitOn(s, sep) ==
    LET at == {i \in 1..Len(s) : s[i] = sep}
        n == Cardinality(at)
        lo(k) == IF k = 1 THEN 1 ELSE Nth(at, k - 1) + 1
        hi(k) == IF k = n + 1 THEN Len(s) ELSE Nth(at, k) - 1
    IN  [k \in 1..(n + 1) |-> SubSeq(s, lo(k), hi(k))]

\* s.split(): the maximal runs of non-whitespace characters.
SplitWhitespace(s) ==
    LET word(i) == s[i] \notin Whitespace
        starts == {i \in 1..Len(s) : word(i) /\ (i = 1 \/ ~word(i - 1))}
        ends == {i \in 1..Len(s) : word(i) /\ (i = Len(s) \/ ~word(i + 1))}
    IN  [k \in 1..Cardinality(starts) |-> SubSeq(s, Nth(starts, k), Nth(ends, k))]

\* io.StringIO.readlines(): the lines of the text, each with its newline; a
\* last line without newline is a line too.
ReadLines(s) ==
    LET at == {i \in 1..Len(s) : s[i] = "\n"}
        n == Cardinality(at)
        last == IF n = 0 THEN 0 ELSE Max(at)
        m == IF last < Len(s) THEN n + 1 ELSE n
        lo(k) == IF k = 1 THEN 1 ELSE Nth(at, k - 1) + 1
        hi(k) == IF k = n + 1 THEN Len(s) ELSE Nth(at, k)
    IN  [k \in 1..m |-> SubSeq(s, lo(k), hi(k))]

RECURSIVE DigitsValue(_)
\* The number a non-empty string of digits denotes.
DigitsValue(s) ==
    IF Len(s) = 0 THEN 0
    ELSE 10 * DigitsValue(SubSeq(s, 1, Len(s) - 1)) + DigitValue(s[Len(s)])

RECURSIVE Pow10(_)
Pow10(n) == IF n = 0 THEN 1 ELSE 10 * Pow10(n - 1)

AllDigits(s) == \A i \in 1..Len(s) : s[i] \in Digits

\* The sign and the unsigned body of a stripped numeral.
Signed(s) ==
    IF Len(s) > 0 /\ s[1] \in {"-", "+"}
    THEN [neg |-> s[1] = "-", body |-> Tail(s)]
    ELSE [neg |-> FALSE, body |-> s]

\* int(s) for a str s: surrounding whitespace is ignored, then an optional
\* sign and at least one decimal digit; anything else is a ValueError.
IntOfStr(s) ==
    LET number(p) ==
            IF Len(p.body) > 0 /\ AllDigits(p.body)
            THEN Returned(PyInt((IF p.neg THEN -1 ELSE 1) * DigitsValue(p.body)))
            ELSE Raised("ValueError")
    IN  number(Signed(Strip(s)))

\* float(s) for a str s: surrounding whitespace is ignored, then an optional
\* sign, digits with at most one point and at least one digit; anything else
\* (over the characters of the model) is a ValueError.
FloatOfStr(s) ==
    LET units(whole, frac) ==
            DigitsValue(whole) * Unit
            + DigitsValue(SubSeq(frac, 1, Min({6, Len(frac)})))
                * Pow10(6 - Min({6, Len(frac)}))
        number(neg, parts, frac) ==
            IF /\ Len(parts) <= 2
               /\ AllDigits(parts[1]) /\ AllDigits(frac)
               /\ Len(parts[1]) + Len(frac) > 0
            THEN Returned(PyFloat((IF neg THEN -1 ELSE 1) * units(parts[1], frac)))
            ELSE Raised("ValueError")
        split(neg, parts) ==
            number(neg, parts, IF Len(parts) = 2 THEN parts[2] ELSE <<>>)
        signed(p) == split(p.neg, SplitOn(p.body, "."))
    IN  signed(Signed(Strip(s)))

\* float(x) for a value x.
ToFloat(x) ==
    CASE x.t = "float" -> Returned(x)
      [] x.t = "int" -> Returned(PyFloat(x.v * Unit))
      [] x.t = "str" -> FloatOfStr(x.v)
      [] OTHER -> Raised("TypeError")

\* int(x) for a value x: a float is truncated towards zero.
ToInt(x) ==
    CASE x.t = "int" -> Returned(x)
      [] x.t = "float" ->
            Returned(PyInt(IF x.v < 0 THEN -((-x.v) \div Unit) ELSE x.v \div Unit))
      [] x.t = "str" -> IntOfStr(x.v)
      [] OTHER -> Raised("TypeError")

\* numpy.isclose(a, b) with the default rtol = 1e-05 and atol = 1e-08:
\* |a - b| <= atol + rtol * |b|.  In units of 10^-6 that is
\* 100000 * |A - B| <= 1000 + |B|; |A - B| is an integer, so it is
\* |A - B| <= (1000 + |B|) \div 100000.
IsClose(a, b) ==
    IF IsNumber(a) /\ IsNumber(b)
    THEN Returned(Abs(Units(a) - Units(b)) <= (1000 + Abs(Units(b))) \div 100000)
    ELSE Raised("TypeError")

\* Evaluation of "e1 and e2 and ... and en", each ei given as what it returns
\* or raises: the first ei that is false or raises decides, and the later
\* ones are not evaluated.
AndChain(res) ==
    LET stop == {i \in 1..Len(res) : ~(res[i].ok /\ res[i].v = TRUE)}
    IN  IF stop = {} THEN Returned(TRUE)
        ELSE IF res[Min(stop)].ok THEN Returned(FALSE) ELSE res[Min(stop)]

\* The first result of a sequence that raised, or Returned(TRUE) when none did.
FirstRaised(res) ==
    LET bad == {i \in 1..Len(res) : ~res[i].ok}
    IN  IF bad = {} THEN Returned(TRUE) ELSE res[Min(bad)]

(***************************************************************************)
(* class LatticeParameters_                                                *)
(***************************************************************************)
\* An attribute the instance does not have (getattr falls to its default),
\* or a keyword the caller did not pass.
Unset == [t |-> "unset", v |-> 0]

LPNames == <<"a", "b", "c", "alpha", "beta", "gamma">>

\* The attribute behind each property.
LPAttr(name) ==
    CASE name = "a" -> "a_" [] name = "b" -> "b_" [] name = "c" -> "c_"
      [] name = "alpha" -> "alpha_" [] name = "beta" -> "beta_"
      [] name = "gamma" -> "gamma_"

\* An instance with no attribute set.
LPBlank ==
    [a_ |-> Unset, b_ |-> Unset, c_ |-> Unset,
     alpha_ |-> Unset, beta_ |-> Unset, gamma_ |-> Unset]

\* getattr(self, attr, default).
GetAttr(o, attr, default) == IF o[attr].t = "unset" THEN default ELSE o[attr]

\* The property getters: a and alpha default to None; b and c default to
\* the value a has when they are read, beta and gamma to that of alpha.
LPGetNoDefault(o, name) == GetAttr(o, LPAttr(name), None)

LPGet(o, name) ==
    CASE name = "a" -> GetAttr(o, "a_", None)
      [] name = "b" -> GetAttr(o, "b_", GetAttr(o, "a_", None))
      [] name = "c" -> GetAttr(o, "c_", GetAttr(o, "a_", None))
      [] name = "alpha" -> GetAttr(o, "alpha_", None)
      [] name = "beta" -> GetAttr(o, "beta_", GetAttr(o, "alpha_", None))
      [] name = "gamma" -> GetAttr(o, "gamma_", GetAttr(o, "alpha_", None))

\* The property setters: self.<name>_ = float(value).  The result is the
\* instance after the assignment, or what float raised.
LPSet(o, name, value) ==
    LET assign(f) == IF f.ok THEN Returned([o EXCEPT ![LPAttr(name)] = f.v]) ELSE f
    IN  assign(ToFloat(value))

RECURSIVE LPAssignAll(_, _, _)
\* The assignments of __init__ from its i-th keyword on, in the order
\* a, b, c, alpha, beta, gamma; a keyword not passed is skipped.
LPAssignAll(o, kwds, i) ==
    LET rest(r) == IF r.ok THEN LPAssignAll(r.v, kwds, i + 1) ELSE r
    IN  IF i > Len(LPNames) THEN Returned(o)
        ELSE IF kwds[LPNames[i]].t = "unset" THEN LPAssignAll(o, kwds, i + 1)
        ELSE rest(LPSet(o, LPNames[i], kwds[LPNames[i]]))

\* LatticeParameters_(**kwds).
LPInit(kwds) == LPAssignAll(LPBlank, kwds, 1)

\* No keyword passed.
NoKwds ==
    [a |-> Unset, b |-> Unset, c |-> Unset,
     alpha |-> Unset, beta |-> Unset, gamma |-> Unset]

\* A LatticeParameters_ instance as a Python value.
LPValue(o) == [t |-> "LatticeParameters_", v |-> o]

\* LatticeParameters_.__eq__(self, rhs), rhs a Python value: the six resolved
\* values are compared with numpy.isclose; rhs.a on None is an AttributeError.
LPEq(o, rhsv) ==
    IF rhsv.t # "LatticeParameters_" THEN Raised("AttributeError")
    ELSE AndChain([i \in 1..Len(LPNames) |->
                      IsClose(LPGet(o, LPNames[i]), LPGet(rhsv.v, LPNames[i]))])

(***************************************************************************)
(* pandas.Series and numpy.ndarray, as far as Grain_ uses them             *)
(***************************************************************************)
\* The column names of the grain table.
Col ==
    [
      GrainID |-> <<"G", "r", "a", "i", "n", "I", "D">>,
      O11 |-> <<"O", "1", "1">>,
      O12 |-> <<"O", "1", "2">>,
      O13 |-> <<"O", "1", "3">>,
      O21 |-> <<"O", "2", "1">>,
      O22 |-> <<"O", "2", "2">>,
      O23 |-> <<"O", "2", "3">>,
      O31 |-> <<"O", "3", "1">>,
      O32 |-> <<"O", "3", "2">>,
      O33 |-> <<"O", "3", "3">>,
      X |-> <<"X">>,
      Y |-> <<"Y">>,
      Z |-> <<"Z">>,
      a |-> <<"a">>,
      b |-> <<"b">>,
      c |-> <<"c">>,
      alpha |-> <<"a", "l", "p", "h", "a">>,
      beta |-> <<"b", "e", "t", "a">>,
      gamma |-> <<"g", "a", "m", "m", "a">>,
      DiffPos |-> <<"D", "i", "f", "f", "P", "o", "s">>,
      DiffOme |-> <<"D", "i", "f", "f", "O", "m", "e">>,
      DiffAngle |-> <<"D", "i", "f", "f", "A", "n", "g", "l", "e">>,
      GrainRadius |-> <<"G", "r", "a", "i", "n", "R", "a", "d", "i", "u", "s">>,
      Confidence |-> <<"C", "o", "n", "f", "i", "d", "e", "n", "c", "e">>,
      eFab11 |-> <<"e", "F", "a", "b", "1", "1">>,
      eFab12 |-> <<"e", "F", "a", "b", "1", "2">>,
      eFab13 |-> <<"e", "F", "a", "b", "1", "3">>,
      eFab21 |-> <<"e", "F", "a", "b", "2", "1">>,
      eFab22 |-> <<"e", "F", "a", "b", "2", "2">>,
      eFab23 |-> <<"e", "F", "a", "b", "2", "3">>,
      eFab31 |-> <<"e", "F", "a", "b", "3", "1">>,
      eFab32 |-> <<"e", "F", "a", "b", "3", "2">>,
      eFab33 |-> <<"e", "F", "a", "b", "3", "3">>,
      eKen11 |-> <<"e", "K", "e", "n", "1", "1">>,
      eKen12 |-> <<"e", "K", "e", "n", "1", "2">>,
      eKen13 |-> <<"e", "K", "e", "n", "1", "3">>,
      eKen21 |-> <<"e", "K", "e", "n", "2", "1">>,
      eKen22 |-> <<"e", "K", "e", "n", "2", "2">>,
      eKen23 |-> <<"e", "K", "e", "n", "2", "3">>,
      eKen31 |-> <<"e", "K", "e", "n", "3", "1">>,
      eKen32 |-> <<"e", "K", "e", "n", "3", "2">>,
      eKen33 |-> <<"e", "K", "e", "n", "3", "3">>,
      RMSErrorStrain |-> <<"R", "M", "S", "E", "r", "r", "o", "r", "S", "t", "r", "a", "i", "n">>,
      PhaseNr |-> <<"P", "h", "a", "s", "e", "N", "r">>
    ]

NDArray(dtype, shape, data) ==
    [t |-> "ndarray", v |-> [dtype |-> dtype, shape |-> shape, data |-> data]]

\* series[name]: the value under the label, a KeyError without it.
GetItem(series, name) ==
    IF name \in DOMAIN series.data THEN Returned(series.data[name])
    ELSE Raised("KeyError")

\* series[[names]].values: the values under the labels, in the order asked
\* for, as a one-dimensional array; a KeyError when a label is missing.
GetValues(series, names) ==
    IF \A i \in 1..Len(names) : names[i] \in DOMAIN series.data
    THEN Returned(NDArray(series.dtype, <<Len(names)>>,
                          [i \in 1..Len(names) |-> series.data[names[i]]]))
    ELSE Raised("KeyError")

\* array.reshape(shape): the same elements, in row-major order.
Reshape(r, shape) ==
    IF r.ok THEN Returned([r.v EXCEPT !.v.shape = shape]) ELSE r

\* numpy.allclose(x, y) on arrays of one shape: every pair of elements is
\* close.  None, and an array of dtype object, are a TypeError.
AllClose(x, y) ==
    IF x.t # "ndarray" \/ y.t # "ndarray" THEN Raised("TypeError")
    ELSE IF x.v.dtype = "object" \/ y.v.dtype = "object" THEN Raised("TypeError")
    ELSE Returned(\A i \in 1..Len(x.v.data) : IsClose(x.v.data[i], y.v.data[i]).v)

(***************************************************************************)
(* class Grain_                                                            *)
(***************************************************************************)
GrainFields ==
    <<"ID", "orientation", "location", "latticeParameters", "diffPos",
      "diffOme", "diffAngle", "radius", "confidence", "strainFab",
      "strainKen", "rmsErrorStrain", "phaseNumber">>

\* Grain_(): every field None.
GrainInit == [f \in {GrainFields[i] : i \in 1..Len(GrainFields)} |-> None]

\* The keywords of the LatticeParameters_ call of from_Series: the six
\* series lookups are made first, in the order written.
GrainLattice(series) ==
    LET made(got, r) ==
            IF ~FirstRaised(got).ok THEN FirstRaised(got)
            ELSE IF r.ok THEN Returned(LPValue(r.v)) ELSE r
        kwd(got) == [n \in {LPNames[i] : i \in 1..Len(LPNames)} |->
                        got[CHOOSE i \in 1..Len(LPNames) : LPNames[i] = n].v]
        from(got) == made(got, LPInit(kwd(got)))
    IN  from([i \in 1..Len(LPNames) |-> GetItem(series, Col[LPNames[i]])])

\* The right-hand side of each assignment of from_Series: what it evaluates
\* to, or what it raises.
GrainFieldFrom(series, f) ==
    CASE f = "ID" -> GetItem(series, Col.GrainID)
      [] f = "orientation" ->
            Reshape(GetValues(series,
                <<Col.O11, Col.O12, Col.O13, Col.O21, Col.O22, Col.O23,
                  Col.O31, Col.O32, Col.O33>>), <<3, 3>>)
      [] f = "location" -> GetValues(series, <<Col.X, Col.Y, Col.Z>>)
      [] f = "latticeParameters" -> GrainLattice(series)
      [] f = "diffPos" -> GetItem(series, Col.DiffPos)
      [] f = "diffOme" -> GetItem(series, Col.DiffOme)
      [] f = "diffAngle" -> GetItem(series, Col.DiffAngle)
      [] f = "radius" -> GetItem(series, Col.GrainRadius)
      [] f = "confidence" -> GetItem(series, Col.Confidence)
      [] f = "strainFab" ->
            Reshape(GetValues(series,
                <<Col.eFab11, Col.eFab12, Col.eFab13, Col.eFab21, Col.eFab22,
                  Col.eFab23, Col.eFab31, Col.eFab32, Col.eFab33>>), <<3, 3>>)
      [] f = "strainKen" ->
            Reshape(GetValues(series,
                <<Col.eKen11, Col.eKen12, Col.eKen13, Col.eKen21, Col.eKen22,
                  Col.eKen23, Col.eKen31, Col.eKen32, Col.eKen33>>), <<3, 3>>)
      [] f = "rmsErrorStrain" -> GetItem(series, Col.RMSErrorStrain)
      [] f = "phaseNumber" ->
            LET conv(x) == IF x.ok THEN ToInt(x.v) ELSE x
            IN  conv(GetItem(series, Col.PhaseNr))

\* Grain_.from_Series(self, series): the assignments are made one after the
\* other; the first right-hand side that raises ends the call, with the
\* fields before it assigned and the fields from it on as they were.
\* The result is the grain after the call and what the call raised.
FromSeries(g, series) ==
    LET idx(f) == CHOOSE i \in 1..Len(GrainFields) : GrainFields[i] = f
        upto(res, stop) ==
            [grain |-> [f \in DOMAIN g |-> IF idx(f) < stop THEN res[idx(f)].v ELSE g[f]],
             exc |-> IF stop > Len(res) THEN "none" ELSE res[stop].exc]
        assign(res) == upto(res, Min({i \in 1..Len(res) : ~res[i].ok} \cup {Len(res) + 1}))
    IN  assign([i \in 1..Len(GrainFields) |-> GrainFieldFrom(series, GrainFields[i])])

\* self.latticeParameters == rhs.latticeParameters: None == None holds;
\* between None and an instance Python falls to the instance's __eq__ with
\* None as rhs.
LatticeFieldEq(x, y) ==
    CASE x.t = "none" /\ y.t = "none" -> Returned(TRUE)
      [] x.t = "LatticeParameters_" -> LPEq(x.v, y)
      [] OTHER -> LPEq(y.v, x)

\* Grain_.__eq__(self, rhs).
GrainEq(g, h) ==
    AndChain(<<
        Returned(PyEq(g.ID, h.ID)),
        AllClose(g.orientation, h.orientation),
        AllClose(g.location, h.location),
        LatticeFieldEq(g.latticeParameters, h.latticeParameters),
        IsClose(g.diffPos, h.diffPos),
        IsClose(g.diffOme, h.diffOme),
        IsClose(g.diffAngle, h.diffAngle),
        IsClose(g.radius, h.radius),
        AllClose(g.strainFab, h.strainFab),
        AllClose(g.strainKen, h.strainKen),
        Returned(PyEq(g.phaseNumber, h.phaseNumber)) >>)

(***************************************************************************)
(* pandas.read_table(sio, skiprows=8, index_col=False), for a table whose  *)
(* column names are distinct and whose rows have a cell for every column   *)
(***************************************************************************)
\* The dtype pandas infers for a column from its cells.
ColumnDtype(cells) ==
    IF \A i \in 1..Len(cells) : IntOfStr(cells[i]).ok THEN "int64"
    ELSE IF \A i \in 1..Len(cells) : FloatOfStr(cells[i]).ok THEN "float64"
    ELSE "object"

\* The dtype of a row of iterrows(): the common type of the columns.
RowDtype(dtypes) ==
    IF \E j \in 1..Len(dtypes) : dtypes[j] = "object" THEN "object"
    ELSE IF \E j \in 1..Len(dtypes) : dtypes[j] = "float64" THEN "float64"
    ELSE "int64"

\* A cell of a column of the given dtype, in a row of the given dtype.
CellValue(cell, coldtype, rowdtype) ==
    CASE coldtype = "object" -> PyStr(cell)
      [] coldtype = "float64" -> FloatOfStr(cell).v
      [] coldtype = "int64" /\ rowdtype = "float64" -> ToFloat(IntOfStr(cell).v).v
      [] OTHER -> IntOfStr(cell).v

\* The table read: the lines after the first eight, blank lines dropped; the
\* first of them names the columns and the others are the rows, their cells
\* separated by tabs.  A text with nothing there is an EmptyDataError.  The
\* result is the sequence of the rows, as iterrows() hands them out.
ReadTable(text) ==
    LET all == SplitOn(text, "\n")
        at == {k \in 9..Len(all) : Len(all[k]) > 0}
        n == Cardinality(at)
        names == SplitOn(all[Nth(at, 1)], "\t") \o <<>>
        cells == [k \in 1..(n - 1) |-> SplitOn(all[Nth(at, k + 1)], "\t") \o <<>>] \o <<>>
        dtypes == [j \in 1..Len(names) |->
                      ColumnDtype([k \in 1..(n - 1) |-> cells[k][j]])] \o <<>>
        rowdtype == RowDtype(dtypes)
        col(name) == CHOOSE j \in 1..Len(names) : names[j] = name
    IN  IF n = 0 THEN Raised("EmptyDataError")
        ELSE Returned([k \in 1..(n - 1) |->
                [dtype |-> rowdtype,
                 data |-> [name \in {names[j] : j \in 1..Len(names)} |->
                              CellValue(cells[k][col(name)], dtypes[col(name)], rowdtype)]]])

(***************************************************************************)
(* class Grains                                                            *)
(***************************************************************************)
GrainsFields ==
    <<"numGrains_", "beamCenter_", "beamThickness_", "globalPosition_",
      "numPhases_", "spaceGroup_", "latticeParameters_", "grains">>

\* Grains(): the metadata None and no grain.
GrainsInit ==
    [numGrains_ |-> None, beamCenter_ |-> None, beamThickness_ |-> None,
     globalPosition_ |-> None, numPhases_ |-> None, spaceGroup_ |-> None,
     latticeParameters_ |-> None, grains |-> <<>>]

\* The key literals of the header lines.
Key ==
    [
      NumGrains |-> <<"N", "u", "m", "G", "r", "a", "i", "n", "s">>,
      BeamCenter |-> <<"B", "e", "a", "m", "C", "e", "n", "t", "e", "r">>,
      BeamThickness |-> <<"B", "e", "a", "m", "T", "h", "i", "c", "k", "n", "e", "s", "s">>,
      GlobalPosition |-> <<"G", "l", "o", "b", "a", "l", "P", "o", "s", "i", "t", "i", "o", "n">>,
      NumPhases |-> <<"N", "u", "m", "P", "h", "a", "s", "e", "s">>,
      PhaseInfo |-> <<"P", "h", "a", "s", "e", "I", "n", "f", "o">>,
      SpaceGroup |-> <<"S", "p", "a", "c", "e", "G", "r", "o", "u", "p">>,
      LatticeParameter |-> <<"L", "a", "t", "t", "i", "c", "e", " ", "P", "a", "r", "a", "m", "e", "t", "e", "r">>
    ]

\* "if key != <literal>: IOError(...)": the exception is constructed and
\* dropped, not raised, so the statement raises nothing whatever the key.
CheckKey(key, literal) ==
    IF key # literal THEN Returned(None) ELSE Returned(None)

\* "key, value = <pieces>; if key != literal: ...": the value, a str; the
\* unpacking is a ValueError unless there are exactly two pieces.
KeyValue(pieces, literal) ==
    IF Len(pieces) # 2 THEN Raised("ValueError")
    ELSE IF ~CheckKey(pieces[1], literal).ok THEN CheckKey(pieces[1], literal)
    ELSE Returned(PyStr(pieces[2]))

\* "key, value = ...; int(value)".
IntField(pieces, literal) ==
    LET kv == KeyValue(pieces, literal)
    IN  IF kv.ok THEN ToInt(kv.v) ELSE kv

\* "key, value = ...; float(value)".
FloatField(pieces, literal) ==
    LET kv == KeyValue(pieces, literal)
    IN  IF kv.ok THEN ToFloat(kv.v) ELSE kv

\* The same with beta and gamma taken from each other's place.
HeaderLatticeSwapped(value) ==
    LET made(r) == IF r.ok THEN Returned(LPValue(r.v)) ELSE r
        from(p) ==
            IF Len(p) # 6 THEN Raised("ValueError")
            ELSE made(LPInit([a |-> PyStr(p[1]), b |-> PyStr(p[2]), c |-> PyStr(p[3]),
                              alpha |-> PyStr(p[4]), beta |-> PyStr(p[6]),
                              gamma |-> PyStr(p[5])]))
    IN  from(SplitOn(Strip(value), " "))

\* The lattice parameters of header line 8, from the text after the colon:
\* six pieces separated by single spaces, each converted by the setters.
HeaderLattice(value) ==
    LET made(r) == IF r.ok THEN Returned(LPValue(r.v)) ELSE r
        from(p) ==
            IF Len(p) # 6 THEN Raised("ValueError")
            ELSE made(LPInit([a |-> PyStr(p[1]), b |-> PyStr(p[2]), c |-> PyStr(p[3]),
                              alpha |-> PyStr(p[4]), beta |-> PyStr(p[5]),
                              gamma |-> PyStr(p[6])]))
    IN  from(SplitOn(Strip(value), " "))

\* The same list built back to front.
GrainListReversed(table) ==
    LET list(made) ==
            LET bad == {k \in 1..Len(made) : made[k].exc # "none"}
            IN  IF bad = {} THEN Returned([k \in 1..Len(made) |-> made[Len(made) + 1 - k].grain])
                ELSE Raised(made[Min(bad)].exc)
    IN  list([k \in 1..Len(table) |-> FromSeries(GrainInit, table[k])] \o <<>>)

\* [Grain_().from_Series(row) for i, row in table.iterrows()]: the list of
\* the grains, or what the first failing from_Series raised.
GrainList(table) ==
    LET list(made) ==
            LET bad == {k \in 1..Len(made) : made[k].exc # "none"}
            IN  IF bad = {} THEN Returned([k \in 1..Len(made) |-> made[k].grain])
                ELSE Raised(made[Min(bad)].exc)
    IN  list([k \in 1..Len(table) |-> FromSeries(GrainInit, table[k])] \o <<>>)

\* The right-hand side of each assignment of parse to a field of self, from
\* the stripped header lines and the table.
GrainsFieldFrom(header, table, f) ==
    CASE f = "numGrains_" -> IntField(SplitWhitespace(header[1]), Key.NumGrains)
      [] f = "beamCenter_" -> FloatField(SplitWhitespace(header[2]), Key.BeamCenter)
      [] f = "beamThickness_" -> FloatField(SplitWhitespace(header[3]), Key.BeamThickness)
      [] f = "globalPosition_" -> FloatField(SplitWhitespace(header[4]), Key.GlobalPosition)
      [] f = "numPhases_" -> IntField(SplitWhitespace(header[5]), Key.NumPhases)
      [] f = "spaceGroup_" -> IntField(SplitOn(header[7], ":"), Key.SpaceGroup)
      [] f = "latticeParameters_" ->
            LET kv == KeyValue(SplitOn(header[8], ":"), Key.LatticeParameter)
            IN  IF kv.ok THEN HeaderLattice(kv.v.v) ELSE kv
      [] f = "grains" -> GrainList(table)

\* "if len(self.grains) != self.NumGrains: raise IOError(msg)": what the
\* integrity check at the end of parse raises.
CountCheckFewer(grains, numGrains) ==
    IF Len(grains) < numGrains.v THEN "IOError: grains expected" ELSE "none"

CountCheck(grains, numGrains) ==
    IF ~PyEq(PyInt(Len(grains)), numGrains) THEN "IOError: grains expected" ELSE "none"

\* The assignments of parse to the fields of self, made one after the other
\* from the stripped header lines and the table; the first statement that
\* raises ends the call.  At the end the number of grains is compared with
\* NumGrains.
\* The result: how many fields were assigned, their values, what was raised.
ParseFields(header, table) ==
    LET upto(res, stop) ==
            [assigned |-> stop - 1,
             values |-> [i \in 1..(stop - 1) |-> res[i].v],
             exc |-> IF stop <= Len(res) THEN res[stop].exc
                     ELSE CountCheck(res[8].v, res[1].v)]
        assign(res) == upto(res, Min({i \in 1..Len(res) : ~res[i].ok} \cup {Len(res) + 1}))
    IN  assign([i \in 1..Len(GrainsFields) |->
                   GrainsFieldFrom(header, table, GrainsFields[i])] \o <<>>)

\* From the table read and the lines of the text: a table that could not be
\* read ends the call before anything is assigned; else the first eight
\* lines are stripped and the fields assigned.
ParseTable(table, lines) ==
    IF ~table.ok THEN [assigned |-> 0, values |-> <<>>, exc |-> table.exc]
    ELSE ParseFields([k \in 1..8 |-> Strip(lines[k])] \o <<>>, table.v)

\* From the text without '%': the table is read from it, then its lines.
ParseClean(sio) == ParseTable(ReadTable(sio), ReadLines(sio))

\* What parse does with the content of an existing file: the '%' characters
\* are removed from the whole text before anything is read from it.
ParseText(text) == ParseClean(Replace(text, "%"))

(***************************************************************************)
(* The input files: what MIDAS writes, and damaged variants of it          *)
(***************************************************************************)
\* The columns in the order MIDAS writes them.
ColumnOrder ==
    <<"GrainID", "O11", "O12", "O13", "O21", "O22", "O23", "O31",
      "O32", "O33", "X", "Y", "Z", "a", "b", "c", "alpha", "beta",
      "gamma", "DiffPos", "DiffOme", "DiffAngle", "GrainRadius",
      "Confidence", "eFab11", "eFab12", "eFab13", "eFab21", "eFab22",
      "eFab23", "eFab31", "eFab32", "eFab33", "eKen11", "eKen12",
      "eKen13", "eKen21", "eKen22", "eKen23", "eKen31", "eKen32",
      "eKen33", "RMSErrorStrain", "PhaseNr">>

RECURSIVE FormatNat(_)
\* printf("%d") of a natural number.
FormatNat(n) ==
    LET d == <<"0", "1", "2", "3", "4", "5", "6", "7", "8", "9">>
    IN  IF n < 10 THEN <<d[n + 1]>> ELSE FormatNat(n \div 10) \o <<d[(n % 10) + 1]>>

\* printf("%d") of an integer.
FormatInt(n) == IF n < 0 THEN <<"-">> \o FormatNat(-n) ELSE FormatNat(n)

\* printf("%lf") of a fixed-point value: six decimals.
FormatFixed(u) ==
    LET frac == FormatNat(Unit + (Abs(u) % Unit))
    IN  (IF u < 0 THEN <<"-">> ELSE <<>>) \o FormatNat(Abs(u) \div Unit)
            \o <<".">> \o Tail(frac)

RECURSIVE Join(_, _)
\* sep.join(parts).
Join(parts, sep) ==
    IF Len(parts) = 0 THEN <<>>
    ELSE IF Len(parts) = 1 THEN parts[1]
    ELSE parts[1] \o sep \o Join(Tail(parts), sep)

\* Bounds of the input files.
MaxRows == 2
MaxDecl == 2
RowKinds == 2

\* The header values of two experiments: those of the test fixture, and
\* values that all differ from them and from each other.
Meta(m) ==
    IF m = 1
    THEN [beamCenter |-> -20407685, beamThickness |-> 2000000000,
          globalPosition |-> 0, numPhases |-> 1, spaceGroup |-> 194,
          lattice |-> <<2922600, 2922600, 4670050, 90000000, 90000000, 120000000>>]
    ELSE [beamCenter |-> 1500000, beamThickness |-> 100250000,
          globalPosition |-> -3000000, numPhases |-> 2, spaceGroup |-> 225,
          lattice |-> <<4090000, 4100000, 4200000, 80000000, 85000000, 95000000>>]

ColumnIndex(name) == CHOOSE j \in 1..Len(ColumnOrder) : Col[ColumnOrder[j]] = name

IntColumns == {Col.GrainID, Col.PhaseNr}

\* The value a grain of kind r has in a column: an integer for GrainID and
\* PhaseNr, fixed-point units for the others; all values of a row differ,
\* and differ from those of the other kinds.
RowValue(r, name) ==
    LET j == ColumnIndex(name)
    IN  CASE name = Col.GrainID -> 1000 + r
          [] name = Col.PhaseNr -> r
          [] OTHER -> (IF j % 5 = 0 THEN -1 ELSE 1) * (j * 1250000 + r * 370001)

\* n rows of alternating kinds.
RowSeq(start, n) == [i \in 1..n |-> ((start + i) % RowKinds) + 1]

NoDamage == [damage |-> "none", at |-> 0]

\* The ways a file differs from what MIDAS writes.
Damages ==
    {NoDamage, [damage |-> "plain", at |-> 0], [damage |-> "phaseinfo", at |-> 0],
     [damage |-> "badcell", at |-> 0], [damage |-> "notable", at |-> 0],
     [damage |-> "blankline", at |-> 0]}
    \cup {[damage |-> "badkey", at |-> k] : k \in {1, 2, 3, 4, 5, 7, 8}}
    \cup {[damage |-> "novalue", at |-> k] : k \in {1, 3, 7}}
    \cup {[damage |-> "nonnumeric", at |-> k] : k \in {2, 5, 8}}
    \cup {[damage |-> "percent", at |-> k] : k \in 1..4}
    \cup {[damage |-> "nocolumn", at |-> ColumnIndex(n)] : n \in {Col.Z, Col.PhaseNr}}

MissingFile == [kind |-> "missing", meta |-> 0, decl |-> 0, rows |-> <<>>, dmg |-> NoDamage]
NoCall == [kind |-> "nocall", meta |-> 0, decl |-> 0, rows |-> <<>>, dmg |-> NoDamage]

\* The files parse is called on: files as MIDAS writes them, with every
\* declared count against every number of rows; one file in each damaged
\* form; and a path with no file behind it.
Files ==
    {[kind |-> "file", meta |-> 1, decl |-> d, rows |-> RowSeq(st, n), dmg |-> NoDamage] :
        d \in 0..MaxDecl, st \in {0, 1}, n \in 0..MaxRows}
    \cup {[kind |-> "file", meta |-> 2, decl |-> 1, rows |-> RowSeq(1, 1), dmg |-> dm] :
            dm \in Damages}
    \cup {MissingFile}

Bogus == <<"B", "o", "g", "u", "s">>

\* A '%' after the first character of a token.
WithPercent(tok) == <<tok[1], "%">> \o Tail(tok)

Is(f, damage, at) == f.dmg.damage = damage /\ f.dmg.at = at

\* The text of header line k (without its newline).
HeaderLine(f, k) ==
    LET m == Meta(f.meta)
        lead == (IF Is(f, "plain", 0) THEN <<>> ELSE <<"%">>)
                    \o (IF k \in {7, 8} THEN <<"\t">> ELSE <<>>)
        literal == <<Key.NumGrains, Key.BeamCenter, Key.BeamThickness, Key.GlobalPosition,
                     Key.NumPhases, Key.PhaseInfo, Key.SpaceGroup, Key.LatticeParameter>>[k]
        key == IF Is(f, "badkey", k) THEN Bogus
               ELSE IF Is(f, "percent", 1) /\ k = 1 THEN WithPercent(literal)
               ELSE literal
        number == CASE k = 1 -> FormatNat(f.decl)
                    [] k = 2 -> FormatFixed(m.beamCenter)
                    [] k = 3 -> FormatFixed(m.beamThickness)
                    [] k = 4 -> FormatFixed(m.globalPosition)
                    [] k = 5 -> FormatNat(m.numPhases)
                    [] k = 7 -> FormatNat(m.spaceGroup)
                    [] k = 8 -> Join([i \in 1..6 |->
                                        IF Is(f, "nonnumeric", 8) /\ i = 1 THEN <<"x">>
                                        ELSE FormatFixed(m.lattice[i])], <<" ">>)
                    [] OTHER -> <<>>
        value == IF Is(f, "nonnumeric", k) /\ k # 8 THEN <<"x">>
                 ELSE IF Is(f, "percent", 2) /\ k = 2 THEN WithPercent(number)
                 ELSE number
        sep == CASE k = 7 -> <<":">> [] k = 8 -> <<":", " ">> [] OTHER -> <<" ">>
    IN  IF k = 6
        THEN lead \o key \o (IF Is(f, "phaseinfo", 0) THEN <<" ", "7", ":", "x">> ELSE <<>>)
        ELSE IF Is(f, "novalue", k) THEN lead \o key
        ELSE lead \o key \o sep \o value

\* The columns the table of the file has.
FileColumns(f) ==
    SelectSeq([j \in 1..Len(ColumnOrder) |-> Col[ColumnOrder[j]]],
              LAMBDA n : ~Is(f, "nocolumn", ColumnIndex(n)))

\* The line of the column names.
ColumnLine(f) ==
    LET names == FileColumns(f)
    IN  (IF Is(f, "plain", 0) THEN <<>> ELSE <<"%">>)
        \o Join([j \in 1..Len(names) |->
                    IF Is(f, "percent", 3) /\ j = 1 THEN WithPercent(names[j])
                    ELSE names[j]], <<"\t">>)

\* The line of the i-th row.
RowLine(f, i) ==
    LET names == FileColumns(f)
        cell(n) == IF n \in IntColumns THEN FormatInt(RowValue(f.rows[i], n))
                   ELSE FormatFixed(RowValue(f.rows[i], n))
    IN  Join([j \in 1..Len(names) |->
                IF Is(f, "badcell", 0) /\ names[j] = Col.PhaseNr THEN <<"x">>
                ELSE IF Is(f, "percent", 4) /\ names[j] = Col.O12
                     THEN WithPercent(cell(names[j]))
                ELSE cell(names[j])], <<"\t">>)

\* The content of the file: every line ends with a newline.
FileText(f) ==
    LET blank == IF Is(f, "blankline", 0) THEN <<<<>>>> ELSE <<>>
        lines == [k \in 1..8 |-> HeaderLine(f, k)]
                 \o (IF Is(f, "notable", 0) THEN <<>>
                     ELSE <<ColumnLine(f)>> \o blank
                          \o [i \in 1..Len(f.rows) |-> RowLine(f, i)] \o blank)
    IN  Join(lines, <<"\n">>) \o <<"\n">>

\* What parse does with the content of each file, computed once.
Parsed == [f \in Files \ {MissingFile} |-> ParseText(FileText(f))]

\* The assignments of a parse call made on self, with the grains appended
\* to those self holds.
ApplyParseAppending(selfv, e) ==
    LET idx(fld) == CHOOSE i \in 1..Len(GrainsFields) : GrainsFields[i] = fld
    IN  [self |-> [fld \in DOMAIN selfv |->
                      IF idx(fld) <= e.assigned
                      THEN IF fld = "grains" THEN selfv[fld] \o e.values[idx(fld)]
                           ELSE e.values[idx(fld)]
                      ELSE selfv[fld]],
         exc |-> e.exc]

\* The assignments of a parse call made on self: the fields parse got to
\* hold their new values, the others the values they had.
ApplyParse(selfv, e) ==
    LET idx(fld) == CHOOSE i \in 1..Len(GrainsFields) : GrainsFields[i] = fld
    IN  [self |-> [fld \in DOMAIN selfv |->
                      IF idx(fld) <= e.assigned THEN e.values[idx(fld)] ELSE selfv[fld]],
         exc |-> e.exc]

\* Grains.parse(self, filename): a path that is no file is an IOError before
\* anything is read.  The result is self after the call and what it raised.
Parse(selfv, f) ==
    IF f.kind = "missing" THEN [self |-> selfv, exc |-> "IOError: not found"]
    ELSE ApplyParse(selfv, Parsed[f])

(***************************************************************************)
(* The rows from_Series is called on directly                              *)
(***************************************************************************)
\* The row of a grain of kind r as read_table hands it out: all columns
\* numeric, so every value a float.
BaseRow(r) ==
    [dtype |-> "float64",
     data |-> [n \in {Col[ColumnOrder[j]] : j \in 1..Len(ColumnOrder)} |->
                  IF n \in IntColumns THEN PyFloat(RowValue(r, n) * Unit)
                  ELSE PyFloat(RowValue(r, n))]]

\* The row with one value moved by delta units.
ChangedRow(row, name, delta) ==
    [row EXCEPT !.data[name] = PyFloat(row.data[name].v + delta)]

\* The row without one column.
RowWithout(row, name) ==
    [row EXCEPT !.data = [n \in (DOMAIN row.data) \ {name} |-> row.data[n]]]

\* The row with a text in one column (the row is then of dtype object).
RowWithText(row, name) ==
    [dtype |-> "object", data |-> [row.data EXCEPT ![name] = PyStr(<<"x">>)]]

\* One column of each field of Grain_.
FieldColumns ==
    {Col.GrainID, Col.O12, Col.Y, Col.b, Col.DiffPos, Col.DiffOme, Col.DiffAngle,
     Col.GrainRadius, Col.Confidence, Col.eFab21, Col.eKen33, Col.RMSErrorStrain,
     Col.PhaseNr}

GrainRows ==
    {BaseRow(r) : r \in 1..RowKinds}
    \cup {ChangedRow(BaseRow(1), n, Unit) : n \in FieldColumns}
    \cup {ChangedRow(BaseRow(1), n, 1) : n \in {Col.GrainID, Col.O12, Col.b, Col.Confidence}}
    \cup {RowWithout(BaseRow(1), n) : n \in {Col.GrainID, Col.Z, Col.gamma, Col.PhaseNr}}
    \cup {RowWithText(BaseRow(1), n) : n \in {Col.a, Col.PhaseNr}}

NoRow == [dtype |-> "none", data |-> <<>>]

(***************************************************************************)
(* The operations                                                          *)
(***************************************************************************)
MaxAssign == 2

\* The values assigned to the properties of lp.
LPInputs ==
    {PyFloat(1500000), PyInt(2), PyStr(<<"3", ".", "2", "5">>), PyStr(<<"x">>)}

\* The keywords lp is constructed with: none, the cubic and the hexagonal
\* lattice of the docstring, a and alpha, and all six.
LPKwds ==
    {NoKwds,
     [NoKwds EXCEPT !.a = PyFloat(4090000)],
     [NoKwds EXCEPT !.a = PyFloat(3300000), !.c = PyFloat(4500000), !.gamma = PyInt(120)],
     [NoKwds EXCEPT !.a = PyFloat(2922600), !.alpha = PyInt(90)],
     [a |-> PyFloat(2922600), b |-> PyFloat(2922600), c |-> PyFloat(4670050),
      alpha |-> PyFloat(90000000), beta |-> PyFloat(90000000),
      gamma |-> PyFloat(120000000)],
     [NoKwds EXCEPT !.a = PyFloat(4090000), !.beta = PyStr(<<"x">>)]}

Init ==
    /\ lp = LPBlank
    /\ lpLog = <<>>
    /\ lhs = GrainInit
    /\ rhs = GrainInit
    /\ gexc = "none"
    /\ gpre = GrainInit
    /\ grow = NoRow
    /\ self = GrainsInit
    /\ exc = "none"
    /\ pre = GrainsInit
    /\ file = NoCall

\* lp = LatticeParameters_(**kwds); when __init__ raises there is no new
\* instance and lp stays the one it was.
LPConstruct(kwds) ==
    \E r \in {LPInit(kwds)}, given \in {SelectSeq(LPNames, LAMBDA n : kwds[n].t # "unset")} :
        /\ IF r.ok
           THEN /\ lp' = r.v
                /\ lpLog' = [i \in 1..Len(given) |->
                                [by |-> "init", name |-> given[i], value |-> kwds[given[i]]]]
           ELSE UNCHANGED <<lp, lpLog>>
        /\ UNCHANGED <<lhs, rhs, gexc, gpre, grow, self, exc, pre, file>>

\* lp.<name> = value.
LPAssign(name, value) ==
    \E r \in {LPSet(lp, name, value)} :
        /\ Cardinality({i \in 1..Len(lpLog) : lpLog[i].by = "set"}) < MaxAssign
        /\ IF r.ok
           THEN /\ lp' = r.v
                /\ lpLog' = Append(lpLog, [by |-> "set", name |-> name, value |-> value])
           ELSE UNCHANGED <<lp, lpLog>>
        /\ UNCHANGED <<lhs, rhs, gexc, gpre, grow, self, exc, pre, file>>

NextLP ==
    \/ \E kwds \in LPKwds : LPConstruct(kwds)
    \/ \E i \in 1..Len(LPNames), value \in LPInputs : LPAssign(LPNames[i], value)

SpecLP == Init /\ [][NextLP]_vars

\* lhs.from_Series(series).
GrainFromSeries(series) ==
    \E r \in {FromSeries(lhs, series)} :
        /\ lhs' = r.grain
        /\ gexc' = r.exc
        /\ gpre' = lhs
        /\ grow' = series
        /\ UNCHANGED <<lp, lpLog, rhs, self, exc, pre, file>>

\* rhs = Grain_().from_Series(series), for a row of a whole grain.
GrainNew(series) ==
    \E r \in {FromSeries(GrainInit, series)} :
        /\ r.exc = "none"
        /\ rhs' = r.grain
        /\ UNCHANGED <<lp, lpLog, lhs, gexc, gpre, grow, self, exc, pre, file>>

NextGrain ==
    \/ \E series \in GrainRows : GrainFromSeries(series)
    \/ \E r \in 1..RowKinds : GrainNew(BaseRow(r))

SpecGrain == Init /\ [][NextGrain]_vars

\* self.parse(f).
ParseFile(f) ==
    \E r \in {Parse(self, f)} :
        /\ self' = r.self
        /\ exc' = r.exc
        /\ pre' = self
        /\ file' = f
        /\ UNCHANGED <<lp, lpLog, lhs, rhs, gexc, gpre, grow>>

Next == \E f \in Files : ParseFile(f)

Spec == Init /\ [][Next]_vars

(***************************************************************************)
(* What the properties are stated with                                     *)
(***************************************************************************)
\* The text with its '%' characters deleted.
WithoutPercent(text) == SelectSeq(text, LAMBDA ch : ch # "%")

\* What parse does with each file once its '%' characters are deleted.
ParsedWithoutPercent ==
    [f \in Files \ {MissingFile} |-> ParseText(WithoutPercent(FileText(f)))]

\* The number of data rows in the table block of a file.
DataRows(f) == IF Is(f, "notable", 0) THEN 0 ELSE Len(f.rows)

\* A grain of kind r written down field by field, as the fixture of the
\* tests writes down the grain it expects.
ExpectedGrain(r) ==
    LET x(n) == PyFloat(RowValue(r, n))
    IN  [ID |-> PyInt(RowValue(r, Col.GrainID)),
         orientation |-> NDArray("float64", <<3, 3>>,
            <<x(Col.O11), x(Col.O12), x(Col.O13), x(Col.O21), x(Col.O22), x(Col.O23),
              x(Col.O31), x(Col.O32), x(Col.O33)>>),
         location |-> NDArray("float64", <<3>>, <<x(Col.X), x(Col.Y), x(Col.Z)>>),
         latticeParameters |-> LPValue(
            [a_ |-> x(Col.a), b_ |-> x(Col.b), c_ |-> x(Col.c),
             alpha_ |-> x(Col.alpha), beta_ |-> x(Col.beta), gamma_ |-> x(Col.gamma)]),
         diffPos |-> x(Col.DiffPos),
         diffOme |-> x(Col.DiffOme),
         diffAngle |-> x(Col.DiffAngle),
         radius |-> x(Col.GrainRadius),
         confidence |-> x(Col.Confidence),
         strainFab |-> NDArray("float64", <<3, 3>>,
            <<x(Col.eFab11), x(Col.eFab12), x(Col.eFab13), x(Col.eFab21), x(Col.eFab22),
              x(Col.eFab23), x(Col.eFab31), x(Col.eFab32), x(Col.eFab33)>>),
         strainKen |-> NDArray("float64", <<3, 3>>,
            <<x(Col.eKen11), x(Col.eKen12), x(Col.eKen13), x(Col.eKen21), x(Col.eKen22),
              x(Col.eKen23), x(Col.eKen31), x(Col.eKen32), x(Col.eKen33)>>),
         rmsErrorStrain |-> x(Col.RMSErrorStrain),
         phaseNumber |-> PyInt(RowValue(r, Col.PhaseNr))]

ScalarFields ==
    {"diffPos", "diffOme", "diffAngle", "radius", "confidence", "rmsErrorStrain"}
ArrayFields == {"orientation", "location", "strainFab", "strainKen"}

\* Every field of the grain holds numbers (no None, no text).
Populated(g) ==
    /\ IsNumber(g.ID) /\ IsNumber(g.phaseNumber)
    /\ \A f \in ScalarFields : IsNumber(g[f])
    /\ \A f \in ArrayFields :
          /\ g[f].t = "ndarray"
          /\ \A i \in 1..Len(g[f].v.data) : IsNumber(g[f].v.data[i])
    /\ g.latticeParameters.t = "LatticeParameters_"
    /\ \A i \in 1..Len(LPNames) : IsNumber(LPGet(g.latticeParameters.v, LPNames[i]))

\* Two numbers are the same: exactly, or within the tolerance of isclose.
Same(x, y, exact) == IF exact THEN PyEq(x, y) ELSE IsClose(x, y).v

\* Two populated grains agree in every field: ID and phaseNumber exactly,
\* the numbers of the other fields exactly or within tolerance.
AgreeBy(g, h, exact) ==
    /\ PyEq(g.ID, h.ID)
    /\ PyEq(g.phaseNumber, h.phaseNumber)
    /\ \A f \in ScalarFields : Same(g[f], h[f], exact)
    /\ \A f \in ArrayFields :
          /\ g[f].v.shape = h[f].v.shape
          /\ \A i \in 1..Len(g[f].v.data) : Same(g[f].v.data[i], h[f].v.data[i], exact)
    /\ \A i \in 1..Len(LPNames) :
          Same(LPGet(g.latticeParameters.v, LPNames[i]),
               LPGet(h.latticeParameters.v, LPNames[i]), exact)

\* The last value the log holds for a property.
Assigned(log, name) == {i \in 1..Len(log) : log[i].name = name}
LastAssigned(log, name) == ToFloat(log[Max(Assigned(log, name))].value).v

\* What a property reads when its own attribute falls back on another's.
ReadWithDefault(log, name, from) ==
    IF Assigned(log, name) # {} THEN LastAssigned(log, name)
    ELSE IF Assigned(log, from) # {} THEN LastAssigned(log, from)
    ELSE None

(***************************************************************************)
(* The properties                                                          *)
(***************************************************************************)
\* C1: parse returns only when the number of grains equals NumGrains of
\* header line 1; a file whose number of data rows differs from the count
\* it declares makes parse raise.
C1_CountInvariant ==
    file.kind = "file" =>
        /\ exc = "none" => PyEq(PyInt(Len(self.grains)), self.numGrains_)
        /\ exc = "none" => Len(self.grains) = DataRows(file)
        /\ DataRows(file) # file.decl => exc # "none"

C1_Witness ==
    /\ file.kind = "file"
    /\ file.dmg = NoDamage
    /\ DataRows(file) > 0
    /\ DataRows(file) < file.decl
    /\ exc = "IOError: grains expected"

\* C2: a file whose key on a checked header line is not the expected literal
\* makes parse raise a format error.
C2_BadKeyRaises ==
    (file.kind = "file" /\ file.dmg.damage = "badkey") => exc = "IOError: not a valid format"

\* C3: when parse raises, every field of the instance is as it was before
\* the call.
C3_FailedParseLeavesSelf ==
    (file.kind # "nocall" /\ exc # "none") => self = pre

\* C4: b and c read the last value assigned to them, else the value a has
\* when they are read; beta and gamma likewise with alpha.
C4_LiveDefault ==
    /\ LPGet(lp, "a") = ReadWithDefault(lpLog, "a", "a")
    /\ LPGet(lp, "b") = ReadWithDefault(lpLog, "b", "a")
    /\ LPGet(lp, "c") = ReadWithDefault(lpLog, "c", "a")
    /\ LPGet(lp, "alpha") = ReadWithDefault(lpLog, "alpha", "alpha")
    /\ LPGet(lp, "beta") = ReadWithDefault(lpLog, "beta", "alpha")
    /\ LPGet(lp, "gamma") = ReadWithDefault(lpLog, "gamma", "alpha")

C4_Witness ==
    /\ Assigned(lpLog, "b") = {}
    /\ Cardinality(Assigned(lpLog, "a")) >= 2
    /\ lpLog[Min(Assigned(lpLog, "a"))].by = "init"
    /\ lpLog[Max(Assigned(lpLog, "a"))].by = "set"
    /\ ToFloat(lpLog[Min(Assigned(lpLog, "a"))].value).v # LastAssigned(lpLog, "a")
    /\ LPGet(lp, "b") = LastAssigned(lpLog, "a")

\* C5: two populated grains compare equal exactly when every field agrees:
\* ID and phaseNumber exactly, all the others within tolerance.
C5_EqualIffAllFieldsAgree ==
    (Populated(lhs) /\ Populated(rhs)) =>
        ((GrainEq(lhs, rhs) = Returned(TRUE)) <=> AgreeBy(lhs, rhs, FALSE))

\* C6: a from_Series call that raises leaves every field of the grain as it
\* was before the call.
C6_FailedFromSeriesLeavesGrain ==
    gexc # "none" => lhs = gpre

\* C7: after a successful parse every metadata field holds the value of its
\* header line, whatever line 6 and the table hold.
C7_HeaderValues ==
    (file.kind = "file" /\ exc = "none") =>
        LET m == Meta(file.meta)
            l == self.latticeParameters_.v
        IN  /\ self.numGrains_ = PyInt(file.decl)
            /\ self.beamCenter_ = PyFloat(m.beamCenter)
            /\ self.beamThickness_ = PyFloat(m.beamThickness)
            /\ self.globalPosition_ = PyFloat(m.globalPosition)
            /\ self.numPhases_ = PyInt(m.numPhases)
            /\ self.spaceGroup_ = PyInt(m.spaceGroup)
            /\ self.latticeParameters_.t = "LatticeParameters_"
            /\ \A i \in 1..Len(LPNames) : LPGet(l, LPNames[i]) = PyFloat(m.lattice[i])

C7_Witness ==
    /\ file.kind = "file"
    /\ exc = "none"
    /\ Is(file, "phaseinfo", 0)
    /\ pre.beamCenter_.t = "float"
    /\ pre.beamCenter_ # self.beamCenter_
    /\ self.beamCenter_ = PyFloat(Meta(file.meta).beamCenter)

\* C8: parsing a file gives what parsing the file with its '%' characters
\* deleted gives: the same fields, the same grains, the same exception.
C8_PercentIgnored ==
    file.kind = "file" =>
        /\ self = ApplyParse(pre, ParsedWithoutPercent[file]).self
        /\ exc = ApplyParse(pre, ParsedWithoutPercent[file]).exc

C8_Witness ==
    /\ file.kind = "file"
    /\ Is(file, "percent", 4)
    /\ exc = "none"
    /\ Len(self.grains) = 1

\* C9: after a successful parse the grains are the grains of the data rows,
\* one for each row, in the order of the file.
C9_GrainsInRowOrder ==
    (file.kind = "file" /\ exc = "none") =>
        /\ Len(self.grains) = DataRows(file)
        /\ \A i \in 1..Len(self.grains) :
              /\ Populated(self.grains[i])
              /\ AgreeBy(self.grains[i], ExpectedGrain(file.rows[i]), TRUE)

C9_Witness ==
    /\ file.kind = "file"
    /\ exc = "none"
    /\ Len(self.grains) = 2
    /\ file.rows[1] # file.rows[2]
    /\ ~PyEq(self.grains[1].ID, self.grains[2].ID)

\* C10: after a successful parse the instance holds what a fresh instance
\* holds after parsing the same file; nothing of earlier parses is left.
C10_ParseReplaces ==
    (file.kind = "file" /\ exc = "none") => self = Parse(GrainsInit, file).self

C10_Witness ==
    /\ file.kind = "file"
    /\ exc = "none"
    /\ Len(pre.grains) > 0
    /\ pre.spaceGroup_.t = "int"
    /\ pre.spaceGroup_ # self.spaceGroup_
    /\ Len(self.grains) > 0

====
